---- MODULE Spec2Model ----
(***************************************************************************)
(* Vaani backend (src/index.js): a Telegram webhook relay.  POST /webhook  *)
(* takes an update envelope, asks a completion provider (Hugging Face,     *)
(* with OpenAI as fallback) for a reply and posts it back with             *)
(* sendMessage.  The file holds two variants of the program: lines 1-147   *)
(* (Hugging Face + OpenAI) and lines 150-205 (OpenAI only).                *)
(*                                                                         *)
(* JavaScript values are modelled as records [t, v]: t is the type tag     *)
(* and v the payload.  Strings are sequences of one-character strings,     *)
(* arrays are sequences of values, objects are sequences of                *)
(* [k |-> key, val |-> value] members in enumeration order: an integer    *)
(* key such as "0" comes before the string keys.                           *)
(***************************************************************************)
EXTENDS Integers, Sequences, FiniteSets, TLC

\* ------------------------------------------------------------------ bounds

\* longest string a provider returns in a text field or as a raw string
MaxStrLen == 2

\* ------------------------------------------------------- JavaScript values

Undefined == [t |-> "undefined", v |-> 0]
Null == [t |-> "null", v |-> 0]
Num(n) == [t |-> "number", v |-> n]
Bool(b) == [t |-> "boolean", v |-> b]
Str(s) == [t |-> "string", v |-> s]
Arr(a) == [t |-> "array", v |-> a]
Obj(m) == [t |-> "object", v |-> m]
Member(k, x) == [k |-> k, val |-> x]

\* the value of a completed call: returned (ok) or thrown
Return(x) == [ok |-> TRUE, val |-> x]
Throw == [ok |-> FALSE, val |-> Undefined]

\* JavaScript ToBoolean
Truthy(x) ==
  CASE x.t = "undefined" -> FALSE
    [] x.t = "null" -> FALSE
    [] x.t = "boolean" -> x.v
    [] x.t = "number" -> x.v # 0
    [] x.t = "string" -> x.v # <<>>
    [] OTHER -> TRUE

\* x.k would throw a TypeError: x is undefined or null
NoProps(x) == x.t \in {"undefined", "null"}

\* x.k for a value that has properties; a missing property is undefined
Get(x, k) ==
  IF x.t = "object"
  THEN IF \E i \in 1..Len(x.v) : x.v[i].k = k
       THEN x.v[CHOOSE i \in 1..Len(x.v) : x.v[i].k = k].val
       ELSE Undefined
  ELSE Undefined

\* x[0]: the first element of an array, the member "0" of an object
First(x) ==
  CASE x.t = "array" -> IF Len(x.v) > 0 THEN x.v[1] ELSE Undefined
    [] x.t = "object" -> Get(x, <<"0">>)
    [] x.t = "string" -> IF Len(x.v) > 0 THEN Str(<<x.v[1]>>) ELSE Undefined
    [] OTHER -> Undefined

\* a || b and a && b
Or(a, b) == IF Truthy(a) THEN a ELSE b
And(a, b) == IF Truthy(a) THEN b ELSE a

\* A character is a one-character string; a UTF-16 code unit that cannot be
\* written so is the six-character token of its escape, \uXXXX in lower case.
HexDigits ==
  <<"0", "1", "2", "3", "4", "5", "6", "7", "8", "9", "a", "b", "c", "d", "e", "f">>
CodeUnit(a, b, c, d) ==
  "\\u" \o HexDigits[a + 1] \o HexDigits[b + 1] \o HexDigits[c + 1] \o HexDigits[d + 1]

\* the code units below U+0020, by code: tab, line feed, form feed and
\* carriage return are written as characters
ControlChar(n) ==
  CASE n = 9 -> "\t"
    [] n = 10 -> "\n"
    [] n = 12 -> "\f"
    [] n = 13 -> "\r"
    [] OTHER -> CodeUnit(0, 0, n \div 16, n % 16)
ControlCodes == 0..31

\* ECMAScript WhiteSpace and LineTerminator: tab, vertical tab, form feed,
\* space, U+00A0, U+FEFF, the Zs characters, line feed, carriage return,
\* U+2028 and U+2029
Whitespace ==
  {" ", "\t", "\n", "\f", "\r", ControlChar(11),
   CodeUnit(0, 0, 10, 0), CodeUnit(15, 14, 15, 15), CodeUnit(1, 6, 8, 0),
   CodeUnit(2, 0, 2, 8), CodeUnit(2, 0, 2, 9), CodeUnit(2, 0, 2, 15),
   CodeUnit(2, 0, 5, 15), CodeUnit(3, 0, 0, 0)}
    \cup {CodeUnit(2, 0, 0, d) : d \in 0..10}

RECURSIVE TrimStart(_)
TrimStart(s) ==
  IF s # <<>> /\ Head(s) \in Whitespace THEN TrimStart(Tail(s)) ELSE s

RECURSIVE TrimEnd(_)
TrimEnd(s) ==
  IF s # <<>> /\ s[Len(s)] \in Whitespace
  THEN TrimEnd(SubSeq(s, 1, Len(s) - 1))
  ELSE s

\* String.prototype.trim
Trim(s) == TrimEnd(TrimStart(s))

Digits == <<"0", "1", "2", "3", "4", "5", "6", "7", "8", "9">>

RECURSIVE NatChars(_)
NatChars(n) ==
  IF n < 10 THEN <<Digits[n + 1]>>
  ELSE NatChars(n \div 10) \o <<Digits[(n % 10) + 1]>>

NumChars(n) == IF n < 0 THEN <<"-">> \o NatChars(-n) ELSE NatChars(n)

\* the surrogate code units U+D800-U+DBFF (high) and U+DC00-U+DFFF (low)
HighSurrogates == {CodeUnit(13, b, c, d) : b \in 8..11, c \in 0..15, d \in 0..15}
LowSurrogates == {CodeUnit(13, b, c, d) : b \in 12..15, c \in 0..15, d \in 0..15}

\* the six characters of the escape \uXXXX of a code unit given by its digits
UnicodeEscape(a, b, c, d) ==
  <<"\\", "u", HexDigits[a + 1], HexDigits[b + 1], HexDigits[c + 1], HexDigits[d + 1]>>

\* JSON string escaping of one code unit that is not half of a surrogate
\* pair: the quote, the backslash, every code unit below U+0020 (\b, \t,
\* \n, \f, \r or \u00XX) and a lone surrogate are escaped
Escape(c) ==
  CASE c = "\"" -> <<"\\", "\"">>
    [] c = "\\" -> <<"\\", "\\">>
    [] c = "\n" -> <<"\\", "n">>
    [] c = "\t" -> <<"\\", "t">>
    [] c = "\r" -> <<"\\", "r">>
    [] c = "\f" -> <<"\\", "f">>
    [] c = ControlChar(8) -> <<"\\", "b">>
    [] \E n \in ControlCodes : c = ControlChar(n) ->
         LET n == CHOOSE n \in ControlCodes : c = ControlChar(n)
         IN UnicodeEscape(0, 0, n \div 16, n % 16)
    [] c \in HighSurrogates \cup LowSurrogates ->
         LET x == CHOOSE x \in (8..15) \X (0..15) \X (0..15) :
                    c = CodeUnit(13, x[1], x[2], x[3])
         IN UnicodeEscape(13, x[1], x[2], x[3])
    [] OTHER -> <<c>>

\* the escaped characters of a string: a high surrogate followed by a low
\* one is a pair and is kept
RECURSIVE Quote(_)
Quote(s) ==
  IF s = <<>> THEN <<>>
  ELSE IF Len(s) > 1 /\ s[1] \in HighSurrogates /\ s[2] \in LowSurrogates
  THEN <<s[1], s[2]>> \o Quote(Tail(Tail(s)))
  ELSE Escape(Head(s)) \o Quote(Tail(s))

Quoted(s) == <<"\"">> \o Quote(s) \o <<"\"">>

\* JSON.stringify of a value parsed from JSON
RECURSIVE Stringify(_)
RECURSIVE StringifyElems(_)
RECURSIVE StringifyMembers(_)
Stringify(x) ==
  CASE x.t = "null" -> <<"n", "u", "l", "l">>
    [] x.t = "boolean" ->
         IF x.v THEN <<"t", "r", "u", "e">> ELSE <<"f", "a", "l", "s", "e">>
    [] x.t = "number" -> NumChars(x.v)
    [] x.t = "string" -> Quoted(x.v)
    [] x.t = "array" -> <<"[">> \o StringifyElems(x.v) \o <<"]">>
    [] x.t = "object" -> <<"{">> \o StringifyMembers(x.v) \o <<"}">>
StringifyElems(a) ==
  IF a = <<>> THEN <<>>
  ELSE Stringify(Head(a))
       \o (IF Len(a) > 1 THEN <<",">> ELSE <<>>)
       \o StringifyElems(Tail(a))
StringifyMembers(m) ==
  IF m = <<>> THEN <<>>
  ELSE Quoted(Head(m).k) \o <<":">> \o Stringify(Head(m).val)
       \o (IF Len(m) > 1 THEN <<",">> ELSE <<>>)
       \o StringifyMembers(Tail(m))

\* String(x) of a value that is neither a string nor an object
ToStr(x) ==
  CASE x.t = "undefined" -> <<"u", "n", "d", "e", "f", "i", "n", "e", "d">>
    [] OTHER -> Stringify(x)


\* -------------------------------------------------------- program constants

\* a character outside ASCII is written as its escape: the em dash of line 122
EmDash == "\\u2014"

\* src/index.js:115
ApologyText == Str(<<"S","o","r","r","y",","," ","I","'","m"," ","t","e","m","p","o","r","a","r","i","l","y"," ","u","n","a","b","l","e"," ","t","o"," ","r","e","s","p","o","n","d"," ","(","m","o","d","e","l"," ","e","r","r","o","r",")",".">>)

\* src/index.js:122
NotConfiguredText == Str(<<"B","o","t"," ","i","s"," ","n","o","t"," ","f","u","l","l","y"," ","c","o","n","f","i","g","u","r","e","d"," ",EmDash," ","m","i","s","s","i","n","g"," ","H","F","_","A","P","I","_","K","E","Y"," ","o","r"," ","O","P","E","N","A","I","_","A","P","I","_","K","E","Y",".">>)

\* the axios timeout of the provider calls of the first variant, in ms
ProviderTimeoutMs == 120000

\* property names
K_generated_text == <<"g","e","n","e","r","a","t","e","d","_","t","e","x","t">>
K_message == <<"m","e","s","s","a","g","e">>
K_text == <<"t","e","x","t">>
K_chat == <<"c","h","a","t">>
K_id == <<"i","d">>
K_choices == <<"c","h","o","i","c","e","s">>
K_content == <<"c","o","n","t","e","n","t">>
K_0 == <<"0">>
K_error == <<"e","r","r","o","r">>

\* --------------------------------------------------------- completion calls

\* r.val.k where r is the result of the expression so far: a TypeError when
\* r.val is undefined or null
Prop(r, k) ==
  IF ~r.ok \/ NoProps(r.val) THEN Throw ELSE Return(Get(r.val, k))

\* r.val[0], the same way
Elem0(r) ==
  IF ~r.ok \/ NoProps(r.val) THEN Throw ELSE Return(First(r.val))

\* x.trim(): a TypeError unless x is a string
TrimCall(r) ==
  IF ~r.ok \/ r.val.t # "string" THEN Throw ELSE Return(Str(Trim(r.val.v)))

\* lines 42-56 of callHuggingFace: replyText for the response body data
HFReplyText(data) ==
  IF data.t = "array" /\ Len(data.v) # 0 /\ NoProps(data.v[1])
  THEN Throw
  ELSE IF data.t = "array" /\ Len(data.v) # 0
          /\ Truthy(Get(data.v[1], K_generated_text))
  THEN Return(Get(data.v[1], K_generated_text))
  ELSE IF data.t = "string"
  THEN Return(data)
  ELSE IF Truthy(data) /\ data.t \in {"array", "object"}
  THEN IF Truthy(Get(data, K_generated_text))
       THEN Return(Get(data, K_generated_text))
       ELSE IF Truthy(First(data)) /\ Truthy(Get(First(data), K_generated_text))
       THEN Return(Get(First(data), K_generated_text))
       ELSE Return(Str(Stringify(data)))
  ELSE Return(Str(ToStr(data)))

\* callHuggingFace: the value it returns or the error it rethrows, given how
\* its axios.post ended (outcome) and the body of a 2xx response (data)
callHuggingFace(outcome, data) ==
  IF outcome # "ok" THEN Throw ELSE TrimCall(HFReplyText(data))

\* resp.data.choices[0].message.content
ChoiceContent(data) ==
  Prop(Prop(Elem0(Prop(Return(data), K_choices)), K_message), K_content)

\* callOpenAI, the same way
callOpenAI(outcome, data) ==
  IF outcome # "ok" THEN Throw ELSE TrimCall(ChoiceContent(data))

\* lines 170-184 of the second variant: the reply, not trimmed
CompletionV2(outcome, data) ==
  IF outcome # "ok" THEN Throw ELSE ChoiceContent(data)

\* ----------------------------------------------------------------- inputs

Alphabet == {" ", "a"}
Strings == UNION {[1..n -> Alphabet] : n \in 0..MaxStrLen}

\* what a provider may put in a text field
FieldValues == {Str(s) : s \in Strings} \cup {Null, Num(0), Num(5), Bool(TRUE)}

WithField(k) == {Obj(<<Member(k, x)>>) : x \in FieldValues}

\* elements of a response array, members of a response object
Elements ==
  {Null, Num(5), Str(<<"a">>), Obj(<<>>), Obj(<<Member(K_error, Str(<<"a">>))>>)}
    \cup {Str(<<"\f">>), Str(<<ControlChar(1)>>)}
    \cup WithField(K_generated_text)

\* bodies of a 2xx response of the Hugging Face inference API
HFResponses ==
  {Str(s) : s \in Strings}
    \cup {Str(<<"\f", "a">>), Str(<<"a", ControlChar(11)>>),
          Str(<<CodeUnit(0, 0, 10, 0), "a">>)}
    \cup {Null, Num(5), Bool(FALSE), Arr(<<>>)}
    \cup {Arr(<<e>>) : e \in Elements}
    \cup {Arr(<<Obj(<<Member(K_generated_text, Str(<<"a">>))>>), e>>) :
            e \in {Null, Obj(<<Member(K_generated_text, Str(<<" ">>))>>)}}
    \cup {e \in Elements : e.t = "object"}
    \cup {Obj(<<Member(K_0, e)>>) : e \in Elements}
    \cup {Obj(<<Member(K_0, Obj(<<Member(K_generated_text, Num(5))>>)),
                Member(K_generated_text, Str(<<>>))>>)}

ChatCompletion(c) ==
  Obj(<<Member(K_choices, Arr(<<Obj(<<Member(K_message, c)>>)>>))>>)

\* bodies of a 2xx response of the OpenAI chat completions API
OpenAIResponses ==
  {ChatCompletion(m) : m \in WithField(K_content)}
    \cup {ChatCompletion(Obj(<<Member(K_content, Str(<<"\f", "a">>))>>))}
    \cup {ChatCompletion(m) : m \in {Null, Obj(<<>>)}}
    \cup {Null, Obj(<<>>), Obj(<<Member(K_choices, Arr(<<>>))>>),
          Obj(<<Member(K_choices, Arr(<<Null>>))>>)}

\* how an upstream call ends other than with a 2xx response
Failures == {"network", "non2xx", "timeout"}

UserTexts == {<<"h", "i">>}
ChatIds == {42, 7}

TextOptions == {Undefined, Str(<<>>)} \cup {Str(s) : s \in UserTexts}
ChatOptions == {Undefined, Obj(<<>>)} \cup {Obj(<<Member(K_id, Num(c))>>) : c \in ChatIds}

\* an object with the members whose value is not undefined
Members(ms) == Obj(SelectSeq(ms, LAMBDA m : m.val.t # "undefined"))

Messages ==
  {Members(<<Member(K_chat, c), Member(K_text, x)>>) :
     c \in ChatOptions, x \in TextOptions}

\* request bodies: an update with a message, or the members at the top level
Envelopes ==
  {Obj(<<Member(K_message, m)>>) : m \in Messages} \cup Messages
    \cup {Obj(<<Member(K_message, Null)>>)}

\* what the body parser leaves in req.body: a parsed envelope, or nothing
\* for a request it did not parse
Bodies == Envelopes \cup {Undefined}

Reqs == {1, 2}


\* ------------------------------------------------------------------ state

VARIABLES
  variant,    \* which of the two programs of the file runs: 1 or 2
  env,        \* process.env: which of the variables are set
  server,     \* "init", "listening" or "exited"
  pc,         \* per request: where its handler is suspended
  body,       \* per request: req.body
  chatId,     \* per request: const chatId
  userText,   \* per request: const userText
  reply,      \* per request: reply
  calls,      \* per request: the axios.post calls issued, in order
  responses   \* per request: the statuses passed to res.sendStatus, in order

vars ==
  <<variant, env, server, pc, body, chatId, userText, reply, calls, responses>>

\* an axios.post call: the endpoint, the chat_id and text it carries (a
\* provider call carries no chat_id), its timeout option (0: none), whether
\* the credential interpolated into its URL or Authorization header is set
\* (FALSE: the text "undefined" is sent in its place), how it ended and the
\* body of its 2xx response
Call(to, chat, text, timeout, credential) ==
  [to |-> to, chat |-> chat, text |-> text, timeout |-> timeout,
   credential |-> credential, outcome |-> "pending", data |-> Undefined]

HFCall(text) == Call("hf", Undefined, text, ProviderTimeoutMs, env.HF_API_KEY)
OpenAICall(text) ==
  Call("openai", Undefined, text, ProviderTimeoutMs, env.OPENAI_API_KEY)
OpenAICallV2(text) == Call("openai", Undefined, text, 0, env.OPENAI_API_KEY)
SendCall(chat, text) == Call("send", chat, text, 0, env.TELEGRAM_BOT_TOKEN)

\* the outcomes a pending call can have
Outcomes(c) == {"ok", "network", "non2xx"} \cup (IF c.timeout > 0 THEN {"timeout"} ELSE {})

Last(q) == q[Len(q)]

\* the last call of the sequence, resolved
Resolved(q, outcome, data) ==
  [q EXCEPT ![Len(q)] = [@ EXCEPT !.outcome = outcome,
                                  !.data = IF outcome = "ok" THEN data ELSE Undefined]]

\* const message = req.body.message || req.body || {}: a TypeError when
\* req.body is undefined or null
MessageV1(b) ==
  LET m == Prop(Return(b), K_message)
  IN IF m.ok THEN Return(Or(Or(m.val, b), Obj(<<>>))) ELSE Throw

\* const message = req.body.message, the same way
MessageV2(b) == Prop(Return(b), K_message)

\* const chatId = message.chat && message.chat.id
ChatIdV1(message) ==
  And(Get(message, K_chat), Get(Get(message, K_chat), K_id))

\* const chatId = message.chat.id
ChatIdV2(message) == Prop(Return(Get(message, K_chat)), K_id)

\* Ignored without its test of the text
IgnoredWithoutText(message) == ~Truthy(message)

\* lines 93 and 164: the update is acknowledged and ignored
Ignored(message) == ~Truthy(message) \/ ~Truthy(Get(message, K_text))

\* what the runtime does with the rejected promise of an async handler:
\* nothing (the request is never answered), end the process, or hand the
\* error to the framework's error handler, which answers 500
Rejections == {"hang", "crash", "status500"}

Init ==
  /\ variant \in {1, 2}
  /\ env \in [TELEGRAM_BOT_TOKEN : BOOLEAN, HF_API_KEY : BOOLEAN,
              OPENAI_API_KEY : BOOLEAN]
  /\ variant = 2 => ~env.HF_API_KEY
  /\ server = "init"
  /\ pc = [r \in Reqs |-> "idle"]
  /\ body = [r \in Reqs |-> Undefined]
  /\ chatId = [r \in Reqs |-> Undefined]
  /\ userText = [r \in Reqs |-> Undefined]
  /\ reply = [r \in Reqs |-> Undefined]
  /\ calls = [r \in Reqs |-> <<>>]
  /\ responses = [r \in Reqs |-> <<>>]

\* ---------------------------------------------------------------- actions

\* lines 21-24 and 145: the first variant exits without its bot token;
\* lines 157-160 and 203: the second variant has no such check
StartExits == variant = 1 /\ ~env.TELEGRAM_BOT_TOKEN

Start ==
  /\ server = "init"
  /\ server' = IF StartExits THEN "exited" ELSE "listening"
  /\ UNCHANGED <<variant, env, pc, body, chatId, userText, reply, calls, responses>>

\* Respond without the return: the status is sent and the handler goes on
RespondNoReturn(r, status) ==
  /\ responses' = [responses EXCEPT ![r] = Append(@, status)]
  /\ pc' = pc

\* res.sendStatus(status): the handler returns
Respond(r, status) ==
  /\ responses' = [responses EXCEPT ![r] = Append(@, status)]
  /\ pc' = [pc EXCEPT ![r] = "done"]

\* the handler suspends at await axios.post(...)
Await(r, call, at) ==
  /\ calls' = [calls EXCEPT ![r] = Append(@, call)]
  /\ pc' = [pc EXCEPT ![r] = at]

\* Resume with the next call issued twice
ResumeTwice(r, outcome, data, call, at) ==
  /\ calls' = [calls EXCEPT ![r] = Append(Append(Resolved(@, outcome, data), call), call)]
  /\ pc' = [pc EXCEPT ![r] = at]

\* the handler resumes from its await, the call having ended
Resume(r, outcome, data, call, at) ==
  /\ calls' = [calls EXCEPT ![r] = Append(Resolved(@, outcome, data), call)]
  /\ pc' = [pc EXCEPT ![r] = at]

\* ReplyCall with the chat id kept in one place for all requests: the chat
\* of the second request, once it has arrived, replaces the request's own
ReplyCallSharedChat(chat, text) ==
  SendCall(IF pc[2] # "idle" THEN chatId[2] ELSE chat, text)

\* ReplyCall with chat_id and text swapped
ReplyCallSwapped(chat, text) == SendCall(text, chat)

\* lines 128-131: what the sendMessage call carries
ReplyCall(chat, text) == SendCall(chat, text)

\* FirstStep without its last branch: OpenAI is called without its key
FirstStepNoCheck(e) ==
  IF e.HF_API_KEY THEN [call |-> "hf", reply |-> Str(<<>>)]
  ELSE [call |-> "openai", reply |-> Str(<<>>)]

\* lines 106-123: the completion step up to its first await, or its reply
\* when no call is made: [call |-> "hf" | "openai" | "none", reply |-> text]
FirstStep(e) ==
  IF e.HF_API_KEY THEN [call |-> "hf", reply |-> Str(<<>>)]
  ELSE IF e.OPENAI_API_KEY THEN [call |-> "openai", reply |-> Str(<<>>)]
  ELSE [call |-> "none", reply |-> NotConfiguredText]

\* AfterHFFailure without the fallback
AfterHFFailureNoFallback(e) == [call |-> "none", reply |-> ApologyText]

\* lines 110-117: after callHuggingFace threw
AfterHFFailure(e) ==
  IF e.OPENAI_API_KEY THEN [call |-> "openai", reply |-> Str(<<>>)]
  ELSE [call |-> "none", reply |-> ApologyText]

\* lines 90-123 and 134-136: the first variant's handler, up to its first
\* await or its response
ReceiveV1(r, b) ==
  LET read == MessageV1(b)
      message == read.val
      text == Get(message, K_text)
      chat == ChatIdV1(message)
      step == FirstStep(env)
  IN /\ body' = [body EXCEPT ![r] = b]
     /\ IF ~read.ok
        THEN \* the TypeError of line 92 is caught at line 134
             /\ Respond(r, 500)
             /\ UNCHANGED <<chatId, userText, reply, calls>>
        ELSE IF Ignored(message)
        THEN /\ Respond(r, 200)
             /\ UNCHANGED <<chatId, userText, reply, calls>>
        ELSE /\ chatId' = [chatId EXCEPT ![r] = chat]
             /\ userText' = [userText EXCEPT ![r] = text]
             /\ reply' = [reply EXCEPT ![r] = step.reply]
             /\ responses' = responses
             /\ CASE step.call = "hf" -> Await(r, HFCall(text), "awaitHF")
                  [] step.call = "openai" -> Await(r, OpenAICall(text), "awaitOpenAI")
                  [] OTHER -> Await(r, ReplyCall(chat, step.reply), "awaitSend")
     /\ server' = server

\* lines 162-182: the second variant's handler, up to its first await
ReceiveV2(r, b, rejection) ==
  LET read == MessageV2(b)
      message == read.val
      text == Get(message, K_text)
      chat == ChatIdV2(message)
  IN /\ body' = [body EXCEPT ![r] = b]
     /\ IF read.ok /\ Ignored(message)
        THEN /\ Respond(r, 200)
             /\ UNCHANGED <<chatId, userText, reply, calls, server>>
        ELSE IF ~read.ok \/ ~chat.ok
        THEN \* a TypeError of line 163 or 166, outside the try block: the
             \* handler's promise rejects
             /\ UNCHANGED <<chatId, userText, reply, calls>>
             /\ CASE rejection = "status500" -> Respond(r, 500) /\ server' = server
                  [] rejection = "crash" ->
                       /\ pc' = [pc EXCEPT ![r] = "rejected"]
                       /\ server' = "exited"
                       /\ responses' = responses
                  [] OTHER ->
                       /\ pc' = [pc EXCEPT ![r] = "rejected"]
                       /\ UNCHANGED <<server, responses>>
        ELSE /\ chatId' = [chatId EXCEPT ![r] = chat.val]
             /\ userText' = [userText EXCEPT ![r] = text]
             /\ Await(r, OpenAICallV2(text), "awaitOpenAI")
             /\ UNCHANGED <<reply, responses, server>>

\* app.post("/webhook", ...): a request arrives and its handler runs to its
\* first await or to its response
Receive(r, b, rejection) ==
  /\ server = "listening"
  /\ pc[r] = "idle"
  /\ IF variant = 1 THEN ReceiveV1(r, b) ELSE ReceiveV2(r, b, rejection)
  /\ UNCHANGED <<variant, env>>

\* lines 109-117 and 125-131: the Hugging Face call ends and the handler
\* runs to its next await
HFResolve(r, outcome, data) ==
  LET result == callHuggingFace(outcome, data)
      step == AfterHFFailure(env)
  IN /\ server = "listening"
     /\ pc[r] = "awaitHF"
     /\ outcome \in Outcomes(Last(calls[r]))
     /\ IF result.ok
        THEN /\ reply' = [reply EXCEPT ![r] = result.val]
             /\ Resume(r, outcome, data, ReplyCall(chatId[r], result.val), "awaitSend")
        ELSE IF step.call = "openai"
        THEN /\ reply' = reply
             /\ Resume(r, outcome, data, OpenAICall(userText[r]), "awaitOpenAI")
        ELSE /\ reply' = [reply EXCEPT ![r] = step.reply]
             /\ Resume(r, outcome, data, ReplyCall(chatId[r], step.reply), "awaitSend")
     /\ UNCHANGED <<variant, env, server, body, chatId, userText, responses>>

\* the completion of the OpenAI call as the running variant computes it
OpenAIResult(v, outcome, data) ==
  IF v = 1 THEN callOpenAI(outcome, data) ELSE CompletionV2(outcome, data)

\* lines 113, 120, 125-137 and 170-195: the OpenAI call ends; its error, or
\* a TypeError on its response, reaches the handler's catch block
OpenAIResolve(r, outcome, data) ==
  LET result == OpenAIResult(variant, outcome, data)
  IN /\ server = "listening"
     /\ pc[r] = "awaitOpenAI"
     /\ outcome \in Outcomes(Last(calls[r]))
     /\ IF result.ok
        THEN /\ reply' = [reply EXCEPT ![r] = result.val]
             /\ Resume(r, outcome, data, ReplyCall(chatId[r], result.val), "awaitSend")
             /\ responses' = responses
        ELSE /\ reply' = reply
             /\ calls' = [calls EXCEPT ![r] = Resolved(@, outcome, data)]
             /\ Respond(r, 500)
     /\ UNCHANGED <<variant, env, server, body, chatId, userText>>

\* SendStatus with the failure of the send swallowed
SendStatusSwallowed(outcome) == 200

\* lines 133-136 and 191-194: the status the handler answers once the
\* sendMessage call has ended
SendStatus(outcome) == IF outcome = "ok" THEN 200 ELSE 500

\* lines 128-137 and 186-195: the sendMessage call ends
SendResolve(r, outcome) ==
  /\ server = "listening"
  /\ pc[r] = "awaitSend"
  /\ outcome \in Outcomes(Last(calls[r]))
  /\ calls' = [calls EXCEPT ![r] = Resolved(@, outcome, Undefined)]
  /\ Respond(r, SendStatus(outcome))
  /\ UNCHANGED <<variant, env, server, body, chatId, userText, reply>>

AllOutcomes == {"ok"} \cup Failures

\* one request at a time
Next ==
  \/ Start
  \/ \E b \in Bodies, j \in Rejections : Receive(1, b, j)
  \/ \E o \in AllOutcomes, d \in HFResponses : HFResolve(1, o, IF o = "ok" THEN d ELSE Undefined)
  \/ \E o \in AllOutcomes, d \in OpenAIResponses : OpenAIResolve(1, o, IF o = "ok" THEN d ELSE Undefined)
  \/ \E o \in AllOutcomes : SendResolve(1, o)

Spec == Init /\ [][Next]_vars

\* ------------------------------------------------- requests in parallel

\* the first variant, started with its token, serving the requests of Reqs
\* in any interleaving of their awaits
InitParallel == Init /\ variant = 1 /\ env.TELEGRAM_BOT_TOKEN

Update(chat, text) ==
  Obj(<<Member(K_message,
         Obj(<<Member(K_chat, Obj(<<Member(K_id, Num(chat))>>)),
               Member(K_text, Str(text))>>))>>)

ParallelEnvelopes == {Update(42, <<"h", "i">>), Update(7, <<"y", "o">>)}
ParallelHFResponses == {Str(<<" ", "a">>), Arr(<<Null>>)}
ParallelOpenAIResponses ==
  {ChatCompletion(Obj(<<Member(K_content, Str(<<"b">>))>>)), Null}
ParallelOutcomes == {"ok", "network"}

NextParallel ==
  \/ Start
  \/ \E r \in Reqs, b \in ParallelEnvelopes : Receive(r, b, "hang")
  \/ \E r \in Reqs, o \in ParallelOutcomes, d \in ParallelHFResponses :
       HFResolve(r, o, IF o = "ok" THEN d ELSE Undefined)
  \/ \E r \in Reqs, o \in ParallelOutcomes, d \in ParallelOpenAIResponses :
       OpenAIResolve(r, o, IF o = "ok" THEN d ELSE Undefined)
  \/ \E r \in Reqs, o \in ParallelOutcomes : SendResolve(r, o)

SpecParallel == InitParallel /\ [][NextParallel]_vars

\* ------------------------------------------------------- the claims' terms

\* the positions of the calls of request r to an endpoint
CallsTo(r, to) == {i \in 1..Len(calls[r]) : calls[r][i].to = to}
ProviderCalls(r) == CallsTo(r, "hf") \cup CallsTo(r, "openai")

\* the envelope's message object and its fields, read off the envelope
EnvelopeMessage(b) == Get(b, K_message)
EnvelopeText(b) == Get(EnvelopeMessage(b), K_text)

\* the object the running variant takes the text and the chat from: the
\* message, or for the first variant the envelope itself when it has none
ReadFrom(v, b) ==
  IF v = 1 /\ ~Truthy(EnvelopeMessage(b)) THEN b ELSE EnvelopeMessage(b)
ReadText(v, b) == Get(ReadFrom(v, b), K_text)
ReadChat(v, b) == Get(Get(ReadFrom(v, b), K_chat), K_id)

Arrived(r) == pc[r] # "idle"

\* the request carried an envelope: the body parser parsed a JSON body
Parsed(b) == ~NoProps(b)

\* an update with a message that has a text and a chat with an id
Complete(b) ==
  /\ Truthy(EnvelopeText(b))
  /\ Get(Get(EnvelopeMessage(b), K_chat), K_id).t = "number"
Answered(r, status) == responses[r] = <<status>>

\* C1 (as claimed): in the first variant, with a provider configured, once
\* every provider call of a request has failed a sendMessage call carrying
\* the apology is issued for the request's chat.
C1_ApologySentWhenAllFail ==
  \A r \in Reqs :
    ( /\ variant = 1
      /\ env.HF_API_KEY \/ env.OPENAI_API_KEY
      /\ Complete(body[r])
      /\ ProviderCalls(r) # {}
      /\ \A i \in ProviderCalls(r) : calls[r][i].outcome \in Failures )
    => \E i \in CallsTo(r, "send") :
         calls[r][i].text = ApologyText /\ calls[r][i].chat = chatId[r]

\* the call did not end with a 2xx response of a shape the completion step
\* cannot read
Usable(c) ==
  c.outcome = "ok" =>
    IF c.to = "hf" THEN callHuggingFace("ok", c.data).ok
    ELSE callOpenAI("ok", c.data).ok

\* C2 (as claimed): in the first variant a request with text is answered 500
\* only if its sendMessage call failed; otherwise it is answered 200.
C2_Only500OnSendFailure ==
  \A r \in Reqs :
    ( /\ variant = 1 /\ pc[r] = "done" /\ Complete(body[r])
      /\ \A i \in ProviderCalls(r) : Usable(calls[r][i]) )
    => IF \E i \in CallsTo(r, "send") : calls[r][i].outcome \in Failures
       THEN Answered(r, 500)
       ELSE Answered(r, 200)

\* C3 (as claimed): a parsed envelope whose message.text is missing or empty,
\* the envelope without a message object included, is answered 200 and no
\* call is issued for it.
C3_NoMessageTextIgnored ==
  \A r \in Reqs :
    (Arrived(r) /\ Parsed(body[r]) /\ ~Truthy(EnvelopeText(body[r])))
    => Answered(r, 200) /\ calls[r] = <<>>

\* C3 (amended): a parsed envelope is answered 200 with no call issued when the
\* text the handler reads is missing or empty: message.text, or in the first
\* variant the envelope's own text when the envelope has no message object.
C3_NoTextIgnored ==
  \A r \in Reqs :
    (Arrived(r) /\ Parsed(body[r]) /\ ~Truthy(ReadText(variant, body[r])))
    => Answered(r, 200) /\ calls[r] = <<>>

\* an update without text, and one with an empty text, were acknowledged
C3_Witness ==
  /\ Answered(1, 200)
  /\ calls[1] = <<>>
  /\ Truthy(EnvelopeMessage(body[1]))
  /\ EnvelopeText(body[1]) = Str(<<>>)

\* C4: in the first variant with the secondary provider configured, a failed
\* Hugging Face call (network error, non-2xx or timeout) is followed by
\* exactly one OpenAI call, issued next, carrying the text of the failed call.
C4_OneFallbackSameText ==
  \A r \in Reqs :
    \A i \in CallsTo(r, "hf") :
      (variant = 1 /\ env.OPENAI_API_KEY /\ calls[r][i].outcome \in Failures)
      => /\ Cardinality(CallsTo(r, "openai")) = 1
         /\ CallsTo(r, "openai") = {i + 1}
         /\ calls[r][i + 1].text = calls[r][i].text
         /\ calls[r][i].text = ReadText(1, body[r])

\* the primary timed out and the fallback call is in flight
C4_Witness ==
  /\ Len(calls[1]) = 2
  /\ calls[1][1].to = "hf" /\ calls[1][1].outcome = "timeout"
  /\ calls[1][2].to = "openai" /\ calls[1][2].outcome = "pending"

\* C5: in the first variant with no provider credential, a request with text
\* gets the "not configured" reply: no provider call is issued and the one
\* call issued is the sendMessage to the request's chat with that text.
C5_NotConfiguredReply ==
  \A r \in Reqs :
    ( /\ variant = 1
      /\ ~env.HF_API_KEY /\ ~env.OPENAI_API_KEY
      /\ Arrived(r) /\ Truthy(ReadText(1, body[r])) )
    => /\ reply[r] = NotConfiguredText
       /\ ProviderCalls(r) = {}
       /\ Len(calls[r]) = 1
       /\ calls[r][1].to = "send"
       /\ calls[r][1].chat = ReadChat(1, body[r])
       /\ calls[r][1].text = NotConfiguredText

\* the "not configured" reply was delivered to chat 42
C5_Witness ==
  /\ variant = 1 /\ ~env.HF_API_KEY /\ ~env.OPENAI_API_KEY
  /\ Len(calls[1]) = 1
  /\ calls[1][1].chat = Num(42)
  /\ calls[1][1].outcome = "ok"
  /\ Answered(1, 200)

\* the shapes the normalizer supports: an array whose first element is an
\* object with the text field, an object with the text field, a string, an
\* object without the field
HasTextField(x) ==
  x.t = "object" /\ Get(x, K_generated_text).t = "string"
LacksTextField(x) ==
  x.t = "object" /\ Get(x, K_generated_text).t = "undefined"
SupportedShape(d) ==
  \/ d.t = "array" /\ Len(d.v) > 0 /\ HasTextField(d.v[1])
  \/ HasTextField(d)
  \/ d.t = "string"
  \/ LacksTextField(d)

\* the extraction by the priority order (a), (b), (c), (d)
ClaimedExtraction(d) ==
  IF d.t = "array" /\ Len(d.v) > 0 /\ HasTextField(d.v[1])
  THEN Get(d.v[1], K_generated_text)
  ELSE IF HasTextField(d) THEN Get(d, K_generated_text)
  ELSE IF d.t = "string" THEN d
  ELSE Str(Stringify(d))

\* the same order, a text field counting only when it is not empty, and the
\* member "0" of an object read like the first element of an array
NonEmptyField(x) ==
  x.t = "object" /\ Get(x, K_generated_text).t = "string"
    /\ Get(x, K_generated_text).v # <<>>
SelectedText(d) ==
  IF d.t = "array" /\ Len(d.v) > 0 /\ NonEmptyField(d.v[1])
  THEN Get(d.v[1], K_generated_text).v
  ELSE IF NonEmptyField(d) THEN Get(d, K_generated_text).v
  ELSE IF d.t = "object" /\ NonEmptyField(First(d))
  THEN Get(First(d), K_generated_text).v
  ELSE IF d.t = "string" THEN d.v
  ELSE Stringify(d)

\* C6 (as claimed): the reply for a 2xx Hugging Face response of a supported
\* shape (array whose first element has a string text field, object with a
\* string text field, raw string, object without the field) is the
\* extraction by the order (a) first element's text field, (b) top-level
\* text field, (c) the raw string, (d) the stringified JSON.  The extraction
\* is accepted as written and as the code reads it (whitespace trimmed, an
\* empty field passed over, member "0" read like a first element): only a
\* response of a supported shape that yields neither violates the formula.
C6_ReplyIsExtraction ==
  \A r \in Reqs :
    \A i \in CallsTo(r, "hf") :
      (calls[r][i].outcome = "ok" /\ SupportedShape(calls[r][i].data))
      => \/ reply[r] = ClaimedExtraction(calls[r][i].data)
         \/ reply[r] = Str(Trim(SelectedText(calls[r][i].data)))

\* C7 (as claimed): in the first variant a 2xx response of any JSON shape
\* makes the completion step return a string: the reply is a string sent as
\* the next call, and neither the fallback nor the error path is taken.
C7_AnyShapeYieldsString ==
  \A r \in Reqs :
    \A i \in ProviderCalls(r) :
      (variant = 1 /\ calls[r][i].outcome = "ok" /\ Complete(body[r]))
      => /\ reply[r].t = "string"
         /\ Len(calls[r]) = i + 1
         /\ calls[r][i + 1].to = "send"
         /\ calls[r][i + 1].text = reply[r]

\* C8: once the sendMessage call of a request has failed, the request is
\* answered 500, its handler is done and the failed send is its last call.
C8_SendFailureTerminal ==
  \A r \in Reqs :
    \A i \in CallsTo(r, "send") :
      calls[r][i].outcome \in Failures
      => /\ Answered(r, 500)
         /\ pc[r] = "done"
         /\ i = Len(calls[r])
         /\ CallsTo(r, "send") = {i}

\* a reply obtained from the provider could not be sent
C8_Witness ==
  /\ Len(calls[1]) = 2
  /\ calls[1][1].outcome = "ok"
  /\ calls[1][2].to = "send" /\ calls[1][2].outcome = "non2xx"

\* C9 (as claimed): an update whose message lacks the chat identifier or the
\* text is answered 200 and no call is issued for it.
C9_MissingChatOrTextIgnored ==
  \A r \in Reqs :
    ( /\ Arrived(r)
      /\ Truthy(EnvelopeMessage(body[r]))
      /\ \/ Get(Get(EnvelopeMessage(body[r]), K_chat), K_id).t = "undefined"
         \/ ~Truthy(EnvelopeText(body[r])) )
    => Answered(r, 200) /\ calls[r] = <<>>

\* the text the completion step of the first variant yields, read off the
\* calls made before the send
CompletionText(r) ==
  IF ProviderCalls(r) = {} THEN NotConfiguredText
  ELSE LET c == calls[r][CHOOSE i \in ProviderCalls(r) : \A j \in ProviderCalls(r) : j <= i]
       IN IF c.outcome # "ok" THEN ApologyText
          ELSE IF c.to = "openai"
          THEN Str(Trim(Get(Get(First(Get(c.data, K_choices)), K_message), K_content).v))
          ELSE IF callHuggingFace("ok", c.data).ok
          THEN callHuggingFace("ok", c.data).val
          ELSE ApologyText

\* C10: in the first variant, for a request with a chat id and a text whose
\* sendMessage call succeeded: that call is the request's only send, carries
\* the chat id of the envelope and the text the completion step yielded, and
\* the request is answered 200.
C10_ReplyDeliveredUnchanged ==
  \A r \in Reqs :
    \A i \in CallsTo(r, "send") :
      ( /\ variant = 1
        /\ calls[r][i].outcome = "ok"
        /\ ReadChat(1, body[r]).t # "undefined" )
      => /\ CallsTo(r, "send") = {i}
         /\ calls[r][i].chat = ReadChat(1, body[r])
         /\ calls[r][i].text = reply[r]
         /\ reply[r] = CompletionText(r)
         /\ Answered(r, 200)

\* the OpenAI reply "a" was delivered to chat 7
C10_Witness ==
  /\ variant = 1
  /\ Len(calls[1]) = 2
  /\ calls[1][1].to = "openai" /\ calls[1][1].outcome = "ok"
  /\ calls[1][2] = [SendCall(Num(7), Str(<<"a">>)) EXCEPT !.outcome = "ok"]
  /\ Answered(1, 200)

\* C11 (as claimed): in the first variant with both providers configured,
\* an OpenAI call is issued only right after a Hugging Face call of the same
\* request that failed (network error, non-2xx or timeout); none is issued
\* for a request whose Hugging Face call succeeded.
C11_FallbackOnlyAfterFailure ==
  \A r \in Reqs :
    \A i \in CallsTo(r, "openai") :
      (variant = 1 /\ env.HF_API_KEY /\ env.OPENAI_API_KEY /\ Complete(body[r]))
      => /\ i > 1
         /\ calls[r][i - 1].to = "hf"
         /\ calls[r][i - 1].outcome \in Failures

NoPending(q) == \A i \in 1..Len(q) : q[i].outcome # "pending"

\* C12: in every step, a request that has been answered has no call pending
\* and gets no further call, and a request that is answered in the step has
\* every call it issued resolved.
C12_AckAfterPipeline ==
  [][\A r \in Reqs :
       /\ responses[r] # <<>> => (calls'[r] = calls[r] /\ NoPending(calls[r]))
       /\ responses'[r] # <<>> => NoPending(calls'[r])]_vars

\* a request was answered 200 after its provider call and its send resolved
C12_Witness ==
  /\ Answered(1, 200)
  /\ Len(calls[1]) = 2
  /\ calls[1][1].to = "hf" /\ calls[1][1].outcome = "ok"
  /\ calls[1][2].to = "send" /\ calls[1][2].outcome = "ok"

\* C14: a request has at most one call to each provider and at most one
\* sendMessage call.
C14_NoRetry ==
  \A r \in Reqs :
    /\ Cardinality(CallsTo(r, "hf")) <= 1
    /\ Cardinality(CallsTo(r, "openai")) <= 1
    /\ Cardinality(CallsTo(r, "send")) <= 1
    /\ Len(calls[r]) <= 3

\* both providers failed to answer usably and nothing was called again
C14_Witness ==
  /\ Len(calls[1]) = 2
  /\ calls[1][1].to = "hf" /\ calls[1][1].outcome = "non2xx"
  /\ calls[1][2].to = "openai" /\ calls[1][2].outcome = "timeout"
  /\ pc[1] = "done"

\* C15 (as claimed): without the bot token the process exits before it
\* listens: no request is handled and no sendMessage call is issued with an
\* undefined token.
C15_TokenRequired ==
  ~env.TELEGRAM_BOT_TOKEN
  => \A r \in Reqs :
       /\ ~Arrived(r)
       /\ \A i \in 1..Len(calls[r]) :
            calls[r][i].to = "send" => calls[r][i].credential

\* C16 (as claimed): a handler that has ended has sent exactly one response,
\* and no request is ever sent two.
C16_ExactlyOneResponse ==
  \A r \in Reqs :
    /\ Len(responses[r]) <= 1
    /\ pc[r] \in {"done", "rejected"} => Len(responses[r]) = 1

\* what belongs to one request
Local(r) ==
  <<pc[r], body[r], chatId[r], userText[r], reply[r], calls[r], responses[r]>>

\* the call a request has in flight or made last is the one its own
\* envelope, configuration and earlier outcomes determine
OwnCalls(r) ==
  /\ \A i \in ProviderCalls(r) : calls[r][i].text = EnvelopeText(body[r])
  /\ \A i \in CallsTo(r, "send") :
       /\ calls[r][i].chat = Get(Get(EnvelopeMessage(body[r]), K_chat), K_id)
       /\ calls[r][i].text = CompletionText(r)
       /\ i = Len(calls[r])
  /\ calls[r] # <<>> =>
       calls[r][1].to = (IF env.HF_API_KEY THEN "hf"
                         ELSE IF env.OPENAI_API_KEY THEN "openai" ELSE "send")

\* the status a finished request was answered with is the one its own send
\* call determines
OwnStatus(r) ==
  pc[r] = "done" =>
    responses[r] = <<IF Last(calls[r]).to = "send" /\ Last(calls[r]).outcome = "ok"
                     THEN 200 ELSE 500>>

\* C13: with requests of the first variant in flight in any interleaving, a
\* step of one request leaves what belongs to the others unchanged, and the
\* provider calls, the send call (chat id and text) and the status of each
\* request are those its own envelope and its own upstream outcomes
\* determine: no reply goes to another request's chat.
C13_RequestsIndependent ==
  /\ [](\A r \in Reqs : Arrived(r) => (OwnCalls(r) /\ OwnStatus(r)))
  /\ [][\A r \in Reqs :
          Local(r)' # Local(r) => \A q \in Reqs \ {r} : Local(q)' = Local(q)]_vars

\* the two requests were in flight together, finished in the opposite order
\* of their arrival, and each reply went to its own chat
C13_Witness ==
  /\ pc[1] = "done" /\ pc[2] = "done"
  /\ body[1] # body[2]
  /\ Len(calls[1]) = 2 /\ Len(calls[2]) = 3
  /\ calls[1][2].to = "send" /\ calls[1][2].chat = Num(42)
  /\ calls[1][2].text = Str(<<"a">>) /\ calls[1][2].outcome = "ok"
  /\ calls[2][3].to = "send" /\ calls[2][3].chat = Num(7)
  /\ calls[2][3].text = Str(<<"b">>) /\ calls[2][3].outcome = "ok"

====
